---- MODULE Spec2Model ----
(***************************************************************************)
(* Model of src/models/dptnet.py: the constructors of DPTNet, Separator,   *)
(* DualPathTransformer, DualPathTransformerBlock, IntraChunkTransformer    *)
(* and InterChunkTransformer, the forward passes DPTNet.extract_latent,    *)
(* DPTNet.forward and Separator.forward, and the trainable-parameter       *)
(* count.  Tensors are represented by their shapes; where a claim is about *)
(* tensor contents (padding, the mask nonlinearity) the last axis or the   *)
(* channel axis is represented by a sequence of values.                    *)
(***************************************************************************)
EXTENDS Integers, Sequences, FiniteSets, Bags, TLC

(* ------------------------------ bounds --------------------------------- *)
MaxKernel == 3
MaxChunk == 2
MaxT == 6
MaxBlocks == 1
MaxSources == 2
MaxBases == 2
MaxLen == 3

KernelSizes == 1..MaxKernel
\* the stride argument: omitted (None) or given explicitly
StrideArgs == {[given |-> FALSE, value |-> 0]}
              \cup {[given |-> TRUE, value |-> s] : s \in 0..MaxKernel}
ChunkSizes == 1..MaxChunk
HopSizes == 1..MaxChunk
NumBlocks == 0..MaxBlocks
SourceCounts == 1..MaxSources
BasesCounts == 1..MaxBases
MaskNames == {"relu", "sigmoid", "softmax", "bogus"}
BatchSizes == {2}
ChannelCounts == {1, 2}
Lengths == 0..MaxT
TensorValues == {0, 1, 2}
\* basis choices together with the keyword arguments passed along
BasesConfigs ==
    {[enc_bases |-> "trainable", dec_bases |-> "trainable", kwargs |-> {"enc_nonlinear"}],
     [enc_bases |-> "trainable", dec_bases |-> "pinv", kwargs |-> {}],
     [enc_bases |-> "Fourier", dec_bases |-> "Fourier", kwargs |-> {"window_fn"}],
     [enc_bases |-> "Fourier", dec_bases |-> "Fourier", kwargs |-> {}]}
ParamNames == {"encoder", "separator.glu", "decoder"}

VARIABLES cls, status, built, self, params, num_parameters, call

vars == <<cls, status, built, self, params, num_parameters, call>>

(* --------------------------- helpers ----------------------------------- *)
RECURSIVE Zeros(_)
Zeros(n) == IF n <= 0 THEN <<>> ELSE <<0>> \o Zeros(n - 1)

RECURSIVE SumSeq(_)
SumSeq(s) == IF s = <<>> THEN 0 ELSE Head(s) + SumSeq(Tail(s))

RECURSIVE SeqsUpTo(_, _)
SeqsUpTo(S, n) ==
    IF n = 0 THEN {<<>>}
    ELSE LET prev == SeqsUpTo(S, n - 1)
         IN prev \cup {Append(s, v) : s \in {t \in prev : Len(t) = n - 1}, v \in S}

(* ------------------------ padding arithmetic --------------------------- *)
\* extract_latent: padding = (stride - (T-kernel_size)%stride)%stride
\* variant: the outer % stride left out
dptnet_padding_nomod(T, kernel_size, stride) ==
    stride - ((T - kernel_size) % stride)

dptnet_padding(T, kernel_size, stride) ==
    (stride - ((T - kernel_size) % stride)) % stride

\* Separator.forward: padding = (hop_size-(T_bin-chunk_size)%hop_size)%hop_size
separator_padding(T_bin, chunk_size, hop_size) ==
    (hop_size - ((T_bin - chunk_size) % hop_size)) % hop_size

padding_left_of(padding) == padding \div 2

\* variant: the right amount computed like the left one
padding_right_half(padding) == padding \div 2

padding_right_of(padding) == padding - padding_left_of(padding)

\* F.pad on the last axis: a non-negative amount prepends/appends zeros, a
\* negative amount removes that many elements from that end.
\* variant: negative amounts taken from the opposite ends
F_pad_swapped(x, left, right) ==
    LET a == IF left >= 0 THEN Zeros(left) \o x
             ELSE SubSeq(x, 1 - right, Len(x))
    IN IF right >= 0 THEN a \o Zeros(right)
       ELSE SubSeq(a, 1, Len(a) + left)

F_pad(x, left, right) ==
    LET a == IF left >= 0 THEN Zeros(left) \o x
             ELSE SubSeq(x, 1 - left, Len(x))
    IN IF right >= 0 THEN a \o Zeros(right)
       ELSE SubSeq(a, 1, Len(a) + right)

(* ----------------------------- errors ----------------------------------- *)
Ok == "ok"
ErrNotImplemented == "NotImplementedError"
ErrDivisible == "AssertionError: kernel_size is expected divisible by stride"
ErrZeroDivision == "ZeroDivisionError"
ErrMask == "ValueError: Cannot support"
ErrChannels == "AssertionError: input.size() is expected (?,1,?)"
ErrTooShort == "RuntimeError"
ErrKey == "KeyError"

(* --------------------------- constructors ------------------------------ *)
\* A constructor yields [status, built, mask]: how it ended, the constructors
\* entered in order, and the mask nonlinearity module it selected ("none" when
\* it never got that far).
\* variant: an IntraChunkTransformer whose constructor returns
IntraChunkTransformerBuilt ==
    [status |-> Ok, built |-> <<"IntraChunkTransformer">>, mask |-> "none"]

IntraChunkTransformerInit ==
    [status |-> ErrNotImplemented, built |-> <<"IntraChunkTransformer">>,
     mask |-> "none"]

InterChunkTransformerInit ==
    [status |-> ErrNotImplemented, built |-> <<"InterChunkTransformer">>,
     mask |-> "none"]

DualPathTransformerBlockInit ==
    LET intra == IntraChunkTransformerInit
        inter == InterChunkTransformerInit
    IN IF intra.status # Ok
       THEN [status |-> intra.status,
             built |-> <<"DualPathTransformerBlock">> \o intra.built,
             mask |-> "none"]
       ELSE [status |-> inter.status,
             built |-> <<"DualPathTransformerBlock">> \o intra.built \o inter.built,
             mask |-> "none"]

\* for _ in range(num_blocks): net.append(DualPathTransformerBlock(...))
RECURSIVE BlockLoop(_)
BlockLoop(remaining) ==
    IF remaining <= 0 THEN [status |-> Ok, built |-> <<>>, mask |-> "none"]
    ELSE LET block == DualPathTransformerBlockInit
         IN IF block.status # Ok THEN block
            ELSE LET rest == BlockLoop(remaining - 1)
                 IN [status |-> rest.status, built |-> block.built \o rest.built,
                     mask |-> "none"]

DualPathTransformerInit(num_blocks) ==
    LET loop == BlockLoop(num_blocks)
    IN [status |-> loop.status,
        built |-> <<"DualPathTransformer">> \o loop.built,
        mask |-> "none"]

\* the if/elif chain that selects the mask nonlinearity
MaskNonlinearChoice(mask_nonlinear) ==
    IF mask_nonlinear = "relu" THEN [status |-> Ok, mask |-> "ReLU"]
    ELSE IF mask_nonlinear = "sigmoid" THEN [status |-> Ok, mask |-> "Sigmoid"]
    ELSE IF mask_nonlinear = "softmax" THEN [status |-> Ok, mask |-> "Softmax(dim=1)"]
    ELSE [status |-> ErrMask, mask |-> "none"]

SeparatorInit(num_blocks, mask_nonlinear) ==
    LET dprnn == DualPathTransformerInit(num_blocks)
        head == <<"Separator", "Segment1d">> \o dprnn.built
        choice == MaskNonlinearChoice(mask_nonlinear)
    IN IF dprnn.status # Ok
       THEN [status |-> dprnn.status, built |-> head, mask |-> "none"]
       ELSE [status |-> choice.status,
             built |-> head \o <<"OverlapAdd1d", "GLU">>,
             mask |-> choice.mask]

\* stride = kernel_size//2 when stride is None
EffectiveStride(kernel_size, stride) ==
    IF stride.given THEN stride.value ELSE kernel_size \div 2

\* assert kernel_size%stride == 0 (the modulo itself raises for stride 0)
StrideCheck(kernel_size, stride) ==
    IF stride = 0 THEN ErrZeroDivision
    ELSE IF kernel_size % stride = 0 THEN Ok ELSE ErrDivisible

\* self.enc_nonlinear = kwargs['enc_nonlinear'] / self.window_fn = kwargs['window_fn']
KwargsCheck(enc_bases, dec_bases, kwargs) ==
    IF enc_bases = "trainable" /\ ~(dec_bases = "pinv") /\ "enc_nonlinear" \notin kwargs
    THEN ErrKey
    ELSE IF (enc_bases \in {"Fourier", "trainableFourier"}
             \/ dec_bases \in {"Fourier", "trainableFourier"})
            /\ "window_fn" \notin kwargs
    THEN ErrKey
    ELSE Ok

DPTNetInit(kernel_size, stride, enc_bases, dec_bases, kwargs, num_blocks, mask_nonlinear) ==
    LET check == StrideCheck(kernel_size, stride)
        lookup == KwargsCheck(enc_bases, dec_bases, kwargs)
        separator == SeparatorInit(num_blocks, mask_nonlinear)
    IN IF check # Ok
       THEN [status |-> check, built |-> <<>>, mask |-> "none"]
       ELSE IF lookup # Ok
       THEN [status |-> lookup, built |-> <<>>, mask |-> "none"]
       ELSE [status |-> separator.status,
             built |-> <<"choose_bases">> \o separator.built,
             mask |-> separator.mask]

(* --------------------------- parameters -------------------------------- *)
\* element counts of the parameter tensors of a constructed network
Numel(net, p) ==
    IF p = "separator.glu" THEN 2 * net.n_bases * net.n_sources * net.n_bases
    ELSE net.n_bases * net.kernel_size

InitialParams(net) ==
    [p \in ParamNames |-> [numel |-> Numel(net, p), requires_grad |-> TRUE]]

RECURSIVE SumTrainable(_, _)
SumTrainable(ps, names) ==
    IF names = {} THEN 0
    ELSE LET p == CHOOSE q \in names : TRUE
         IN (IF ps[p].requires_grad THEN ps[p].numel ELSE 0)
            + SumTrainable(ps, names \ {p})

get_num_parameters(ps) == SumTrainable(ps, DOMAIN ps)

(* ------------------- collaborators (shape contracts) ------------------- *)
\* encoder: (batch, 1, L) -> (batch, n_bases, (L - kernel_size)/stride + 1)
encoder_frames(L, kernel_size, stride) == (L - kernel_size) \div stride + 1

\* the encoder cannot place its kernel on an input shorter than the kernel
encoder_fits(L, kernel_size) == L >= kernel_size

\* decoder: (batch, n_bases, F) -> (batch, 1, (F - 1)*stride + kernel_size)
decoder_samples(F, kernel_size, stride) == (F - 1) * stride + kernel_size

\* Segment1d: (batch, C, L) -> (batch, C, S, chunk_size), S chunks of
\* chunk_size frames taken every hop_size frames
segment1d_chunks(L, chunk_size, hop_size) == (L - chunk_size) \div hop_size + 1

\* no chunk of chunk_size frames can be cut from a shorter sequence
segment1d_fits(L, chunk_size) == L >= chunk_size

\* OverlapAdd1d: (batch, C, S, chunk_size) -> (batch, C, (S-1)*hop_size + chunk_size)
overlap_add1d_frames(S, chunk_size, hop_size) == (S - 1) * hop_size + chunk_size

\* contents of Segment1d on one row: chunk k holds frames
\* (k-1)*hop_size + 1 .. (k-1)*hop_size + chunk_size
segment1d(x, chunk_size, hop_size) ==
    [k \in 1..segment1d_chunks(Len(x), chunk_size, hop_size) |->
        SubSeq(x, (k - 1) * hop_size + 1, (k - 1) * hop_size + chunk_size)]

\* contents of OverlapAdd1d on one row: every frame is the sum of the chunk
\* elements laid over it
overlap_add1d(chunks, chunk_size, hop_size) ==
    [i \in 1..overlap_add1d_frames(Len(chunks), chunk_size, hop_size) |->
        SumSeq([k \in 1..Len(chunks) |->
                  IF (k - 1) * hop_size < i /\ i <= (k - 1) * hop_size + chunk_size
                  THEN chunks[k][i - (k - 1) * hop_size] ELSE 0])]

\* DualPathTransformer.forward: output = self.net(input); the only networks
\* that exist have no block, and an empty nn.Sequential returns its input
dprnn_forward(x) == x

\* GLU(num_features, n_sources*num_features): (batch, num_features, T) ->
\* (batch, n_sources*num_features, T)
glu_channels(n_sources, num_features) == n_sources * num_features

\* the values the GLU may put on the channel axis of one (batch, frame) position
GluOutputs(C) ==
    {[c \in 1..C |-> 0]}
    \cup {[c \in 1..C |-> IF c = k THEN v ELSE 0] : k \in 1..C, v \in {-1, 1}}

(* --------------------------- mask nonlinearity ------------------------- *)
\* A mask value is the quotient [num, den] of two sums of integer powers of e.
\* Such a sum is held exactly, as the bag of its exponents: e^a + e^b + e^b is
\* the bag with a once and b twice, 0 is the empty bag, the integer n >= 0 is
\* n copies of the exponent 0.  Two such sums are equal numbers exactly when
\* their bags are equal.
Exp(a) == SetToBag({a})

RECURSIVE SumBags(_)
SumBags(s) == IF s = <<>> THEN EmptyBag ELSE Head(s) (+) SumBags(Tail(s))

\* max(0, x)
ReLU(x) ==
    [c \in DOMAIN x |->
        [num |-> IF x[c] > 0 THEN [k \in {0} |-> x[c]] ELSE EmptyBag,
         den |-> Exp(0)]]

\* 1 / (1 + exp(-x))
Sigmoid(x) ==
    [c \in DOMAIN x |-> [num |-> Exp(0), den |-> Exp(0) (+) Exp(0 - x[c])]]

\* softmax along the axis whose elements are x[1..Len(x)]:
\* exp(x[c]) / sum over the axis of exp(x[j])
Softmax(x) ==
    [c \in DOMAIN x |->
        [num |-> Exp(x[c]),
         den |-> SumBags([j \in DOMAIN x |-> Exp(x[j])])]]

\* x = self.mask_nonlinear(x) on the (batch, n_sources*num_features, T_bin)
\* tensor; dim=1 of that tensor is the whole channel axis
mask_nonlinear_apply(mask, x) ==
    IF mask = "ReLU" THEN ReLU(x)
    ELSE IF mask = "Sigmoid" THEN Sigmoid(x)
    ELSE Softmax(x)

\* output = x.view(batch_size, n_sources, num_features, T_bin): channel
\* (s-1)*num_features + f becomes (source s, feature f)
view_sources(y, n_sources, num_features) ==
    [s \in 1..n_sources |-> [f \in 1..num_features |-> y[(s - 1) * num_features + f]]]

(* ----------------------------- forward --------------------------------- *)
NoCall ==
    [op |-> "none", input |-> <<>>, err |-> Ok, steps |-> <<>>,
     padding |-> 0, padding_left |-> 0, padding_right |-> 0,
     frames |-> 0, sep_padding |-> 0,
     output |-> <<>>, latent |-> <<>>, glu |-> <<>>, mask |-> <<>>,
     row |-> <<>>, padded |-> <<>>, operand |-> <<>>, cropped |-> <<>>]

\* Separator.forward on a (batch_size, num_features, T_bin) tensor whose GLU
\* output is g on every (batch, frame) position
separator_forward(sep, batch_size, num_features, T_bin, g) ==
    LET padding == separator_padding(T_bin, sep.chunk_size, sep.hop_size)
        padding_left == padding_left_of(padding)
        padding_right == padding_right_of(padding)
        L == Len(F_pad(Zeros(T_bin), padding_left, padding_right))
        S == segment1d_chunks(L, sep.chunk_size, sep.hop_size)
        L_add == overlap_add1d_frames(S, sep.chunk_size, sep.hop_size)
        T_out == Len(F_pad(Zeros(L_add), 0 - padding_left, 0 - padding_right))
        C == glu_channels(sep.n_sources, sep.num_features)
        y == mask_nonlinear_apply(sep.mask, g)
        base == [NoCall EXCEPT !.op = "Separator.forward",
                               !.input = <<batch_size, num_features, T_bin>>,
                               !.padding = padding,
                               !.padding_left = padding_left,
                               !.padding_right = padding_right,
                               !.frames = T_bin,
                               !.sep_padding = padding]
    IN IF ~segment1d_fits(L, sep.chunk_size)
       THEN [base EXCEPT !.err = ErrTooShort, !.steps = <<"pad", "segment1d">>]
       ELSE IF batch_size * C * T_out
               # batch_size * sep.n_sources * num_features * T_bin
       THEN [base EXCEPT !.err = ErrTooShort,
                         !.steps = <<"pad", "segment1d", "dprnn", "overlap_add1d",
                                     "crop", "glu", "mask_nonlinear", "view">>]
       ELSE [base EXCEPT !.steps = <<"pad", "segment1d", "dprnn", "overlap_add1d",
                                     "crop", "glu", "mask_nonlinear", "view">>,
                         !.output = <<batch_size, sep.n_sources, num_features, T_bin>>,
                         !.glu = g,
                         !.mask = view_sources(y, sep.n_sources, num_features)]

\* variant: any positive channel count accepted
channel_assert_any(C_in) == C_in >= 1

\* assert C_in == 1
channel_assert(C_in) == C_in = 1

SeparatorOf(net) ==
    [num_features |-> net.n_bases, chunk_size |-> net.chunk_size,
     hop_size |-> net.hop_size, num_blocks |-> net.num_blocks,
     mask_nonlinear |-> net.mask_nonlinear, n_sources |-> net.n_sources,
     mask |-> net.mask]

extract_latent(net, batch_size, C_in, T) ==
    LET padding == dptnet_padding(T, net.kernel_size, net.stride)
        padding_left == padding_left_of(padding)
        padding_right == padding_right_of(padding)
        L == Len(F_pad(Zeros(T), padding_left, padding_right))
        frames == encoder_frames(L, net.kernel_size, net.stride)
        sep == separator_forward(SeparatorOf(net), batch_size, net.n_bases, frames,
                                 [c \in 1..glu_channels(net.n_sources, net.n_bases) |-> 0])
        latent == <<sep.output[1], sep.output[2], sep.output[3], sep.output[4]>>
        L_hat == decoder_samples(latent[4], net.kernel_size, net.stride)
        T_out == Len(F_pad(Zeros(L_hat), 0 - padding_left, 0 - padding_right))
        entered == [NoCall EXCEPT !.op = "extract_latent",
                                  !.input = <<batch_size, C_in, T>>]
        base == [entered EXCEPT !.padding = padding,
                                !.padding_left = padding_left,
                                !.padding_right = padding_right]
    IN IF ~channel_assert(C_in)
       THEN [entered EXCEPT !.err = ErrChannels]
       ELSE IF ~encoder_fits(L, net.kernel_size)
       THEN [base EXCEPT !.err = ErrTooShort, !.steps = <<"pad", "encoder">>]
       ELSE IF sep.err # Ok
       THEN [base EXCEPT !.err = sep.err, !.steps = <<"pad", "encoder", "separator">>,
                         !.frames = frames, !.sep_padding = sep.padding]
       ELSE [base EXCEPT !.steps = <<"pad", "encoder", "separator", "decoder", "crop">>,
                         !.frames = frames, !.sep_padding = sep.padding,
                         !.output = <<batch_size, net.n_sources, T_out>>,
                         !.latent = latent]

\* DPTNet.forward: output, latent = self.extract_latent(input); return output
forward(net, batch_size, C_in, T) ==
    [extract_latent(net, batch_size, C_in, T) EXCEPT !.op = "forward",
                                                     !.latent = <<>>]

(* ------------------------------ state ---------------------------------- *)
\* cls/status/built/self describe the object of this behaviour: its class, how
\* its constructor ended ("none" before it ran), the constructors entered, and
\* the constructor's arguments as stored on the object.  params and
\* num_parameters are DPTNet's parameters and its num_parameters attribute.
\* call is the forward call made on the object and what it returned; a forward
\* pass changes nothing of the object, so a behaviour follows one call.
Init ==
    /\ cls = "none"
    /\ status = "none"
    /\ built = <<>>
    /\ self = <<>>
    /\ params = <<>>
    /\ num_parameters = 0
    /\ call = NoCall

Constructed(result, object) ==
    /\ status' = result.status
    /\ built' = result.built
    /\ self' = object
    /\ call' = NoCall

NoParams == /\ params' = <<>>
            /\ num_parameters' = 0

ConstructIntraChunkTransformer ==
    /\ cls = "none"
    /\ cls' = "IntraChunkTransformer"
    /\ Constructed(IntraChunkTransformerInit, <<>>)
    /\ NoParams

ConstructInterChunkTransformer ==
    /\ cls = "none"
    /\ cls' = "InterChunkTransformer"
    /\ Constructed(InterChunkTransformerInit, <<>>)
    /\ NoParams

ConstructDualPathTransformerBlock ==
    /\ cls = "none"
    /\ cls' = "DualPathTransformerBlock"
    /\ Constructed(DualPathTransformerBlockInit, <<>>)
    /\ NoParams

ConstructDualPathTransformer ==
    /\ cls = "none"
    /\ \E num_blocks \in NumBlocks :
          /\ cls' = "DualPathTransformer"
          /\ Constructed(DualPathTransformerInit(num_blocks),
                         [num_blocks |-> num_blocks])
    /\ NoParams

ConstructSeparator ==
    /\ cls = "none"
    /\ \E num_features \in BasesCounts, chunk_size \in ChunkSizes,
          hop_size \in HopSizes, num_blocks \in NumBlocks,
          mask_nonlinear \in MaskNames, n_sources \in SourceCounts :
          LET result == SeparatorInit(num_blocks, mask_nonlinear)
          IN /\ cls' = "Separator"
             /\ Constructed(result,
                            [num_features |-> num_features, chunk_size |-> chunk_size,
                             hop_size |-> hop_size, num_blocks |-> num_blocks,
                             mask_nonlinear |-> mask_nonlinear,
                             n_sources |-> n_sources, mask |-> result.mask])
    /\ NoParams

ConstructDPTNet ==
    /\ cls = "none"
    /\ \E n_bases \in BasesCounts, kernel_size \in KernelSizes,
          stride_arg \in StrideArgs, bases \in BasesConfigs, sep_chunk_size \in ChunkSizes,
          sep_hop_size \in HopSizes, sep_num_blocks \in NumBlocks,
          mask_nonlinear \in MaskNames, n_sources \in SourceCounts :
          LET stride == EffectiveStride(kernel_size, stride_arg)
              result == DPTNetInit(kernel_size, stride, bases.enc_bases, bases.dec_bases,
                                   bases.kwargs, sep_num_blocks, mask_nonlinear)
              net == [n_bases |-> n_bases, kernel_size |-> kernel_size,
                      stride |-> stride, enc_bases |-> bases.enc_bases,
                      dec_bases |-> bases.dec_bases, kwargs |-> bases.kwargs,
                      chunk_size |-> sep_chunk_size,
                      hop_size |-> sep_hop_size, num_blocks |-> sep_num_blocks,
                      mask_nonlinear |-> mask_nonlinear, n_sources |-> n_sources,
                      mask |-> result.mask]
          IN /\ cls' = "DPTNet"
             /\ Constructed(result, net)
             /\ IF result.status = Ok
                THEN /\ params' = InitialParams(net)
                     /\ num_parameters' = get_num_parameters(InitialParams(net))
                ELSE NoParams

\* p.requires_grad = flag on one parameter of a constructed DPTNet; the
\* num_parameters attribute is not recomputed
SetRequiresGrad ==
    /\ cls = "DPTNet"
    /\ status = Ok
    /\ \E p \in ParamNames, flag \in BOOLEAN :
          /\ params[p].requires_grad # flag
          /\ params' = [params EXCEPT ![p].requires_grad = flag]
    /\ UNCHANGED <<cls, status, built, self, num_parameters, call>>

ExtractLatent ==
    /\ cls = "DPTNet"
    /\ status = Ok
    /\ call.op = "none"
    /\ \E batch_size \in BatchSizes, C_in \in ChannelCounts, T \in Lengths :
          call' = extract_latent(self, batch_size, C_in, T)
    /\ UNCHANGED <<cls, status, built, self, params, num_parameters>>

Forward ==
    /\ cls = "DPTNet"
    /\ status = Ok
    /\ call.op = "none"
    /\ \E batch_size \in BatchSizes, C_in \in ChannelCounts, T \in Lengths :
          call' = forward(self, batch_size, C_in, T)
    /\ UNCHANGED <<cls, status, built, self, params, num_parameters>>

SeparatorForward ==
    /\ cls = "Separator"
    /\ status = Ok
    /\ call.op = "none"
    /\ \E batch_size \in BatchSizes, T_bin \in Lengths,
          g \in GluOutputs(glu_channels(self.n_sources, self.num_features)) :
          call' = separator_forward(self, batch_size, self.num_features, T_bin, g)
    /\ UNCHANGED <<cls, status, built, self, params, num_parameters>>

Next ==
    \/ ConstructIntraChunkTransformer
    \/ ConstructInterChunkTransformer
    \/ ConstructDualPathTransformerBlock
    \/ ConstructDualPathTransformer
    \/ ConstructSeparator
    \/ ConstructDPTNet
    \/ SetRequiresGrad
    \/ ExtractLatent
    \/ Forward
    \/ SeparatorForward

Spec == Init /\ [][Next]_vars

(* --------------- one row of contents through a forward pass ------------ *)
\* The same forward passes on a constructed Separator or DPTNet (num_blocks = 0,
\* the configurations whose constructor returns), following the contents of
\* one row of the last axis: row is the row as given, padded the row after the
\* first F.pad; in Separator.forward operand is the row the second F.pad is
\* applied to and cropped its result.
RowSeparators ==
    {[num_features |-> 1, chunk_size |-> chunk_size, hop_size |-> hop_size,
      num_blocks |-> 0, mask_nonlinear |-> "sigmoid", n_sources |-> 1,
      mask |-> SeparatorInit(0, "sigmoid").mask] :
        chunk_size \in ChunkSizes, hop_size \in HopSizes}

RowNet(kernel_size, stride, chunk_size, hop_size) ==
    [n_bases |-> 1, kernel_size |-> kernel_size, stride |-> stride,
     enc_bases |-> "trainable", dec_bases |-> "pinv", kwargs |-> {},
     chunk_size |-> chunk_size, hop_size |-> hop_size, num_blocks |-> 0,
     mask_nonlinear |-> "sigmoid", n_sources |-> 1,
     mask |-> SeparatorInit(0, "sigmoid").mask]

\* the (kernel_size, stride) pairs DPTNet.__init__ accepts
RowNets ==
    {RowNet(c.kernel_size, EffectiveStride(c.kernel_size, c.stride_arg),
            chunk_size, hop_size) :
        c \in {d \in [kernel_size : KernelSizes, stride_arg : StrideArgs] :
                 DPTNetInit(d.kernel_size, EffectiveStride(d.kernel_size, d.stride_arg),
                            "trainable", "pinv", {}, 0, "sigmoid").status = Ok},
        chunk_size \in ChunkSizes, hop_size \in HopSizes}

InitPad ==
    /\ \/ /\ cls = "Separator"
          /\ self \in RowSeparators
          /\ built = SeparatorInit(0, "sigmoid").built
          /\ params = <<>>
          /\ num_parameters = 0
       \/ /\ cls = "DPTNet"
          /\ self \in RowNets
          /\ built = DPTNetInit(self.kernel_size, self.stride, "trainable", "pinv",
                                {}, 0, "sigmoid").built
          /\ params = InitialParams(self)
          /\ num_parameters = get_num_parameters(InitialParams(self))
    /\ status = Ok
    /\ \E x \in SeqsUpTo(TensorValues, MaxLen) :
          call = [NoCall EXCEPT !.op = "input", !.row = x]

\* Separator.forward, lines 140-144 on the row
SeparatorForwardRow ==
    /\ cls = "Separator"
    /\ call.op = "input"
    /\ \E batch_size \in BatchSizes,
          g \in GluOutputs(glu_channels(self.n_sources, self.num_features)) :
          LET x == call.row
              result == separator_forward(self, batch_size, self.num_features,
                                          Len(x), g)
              padded == F_pad(x, result.padding_left, result.padding_right)
              chunks == segment1d(padded, self.chunk_size, self.hop_size)
              added == overlap_add1d(dprnn_forward(chunks), self.chunk_size,
                                     self.hop_size)
          IN call' = IF result.err # Ok
                     THEN [result EXCEPT !.row = x, !.padded = padded]
                     ELSE [result EXCEPT
                             !.row = x,
                             !.padded = padded,
                             !.operand = added,
                             !.cropped = F_pad(added, 0 - result.padding_left,
                                               0 - result.padding_right)]
    /\ UNCHANGED <<cls, status, built, self, params, num_parameters>>

\* DPTNet.extract_latent, lines 78-91: the row after the first F.pad; what the
\* encoder, the separator and the decoder put on the row before the crop is
\* learned, so of the returned tensor the shape (call.output) is followed
ExtractLatentRow ==
    /\ cls = "DPTNet"
    /\ call.op = "input"
    /\ \E batch_size \in BatchSizes :
          LET x == call.row
              result == extract_latent(self, batch_size, 1, Len(x))
              padded == F_pad(x, result.padding_left, result.padding_right)
          IN call' = [result EXCEPT !.row = x, !.padded = padded]
    /\ UNCHANGED <<cls, status, built, self, params, num_parameters>>

NextPad == SeparatorForwardRow \/ ExtractLatentRow

SpecPad == InitPad /\ [][NextPad]_vars

(* ------------------------------ claims --------------------------------- *)
IsLatentCall == call.op \in {"extract_latent", "forward"}

\* the frame count the encoder yields for a T-sample input, and whether the
\* separator's padded frame axis holds at least one chunk
FramesFor(T) ==
    LET K == self.kernel_size
        S == self.stride
        p == (S - ((T - K) % S)) % S
    IN (T + p - K) \div S + 1

HoldsOneChunk(F) ==
    LET W == self.chunk_size
        H == self.hop_size
        q == (H - ((F - W) % H)) % H
    IN F + q >= W

\* C1 as stated: for every chunk_size/hop_size and every single-channel input
\* of T >= kernel_size samples, extract_latent and forward return an output of
\* exactly T samples.
C1_OutputLengthAnyChunking ==
    (IsLatentCall /\ call.input[2] = 1 /\ call.input[3] >= self.kernel_size)
        => (call.err = Ok /\ call.output = <<call.input[1], self.n_sources, call.input[3]>>)

\* C1 amended: for every single-channel input of T >= kernel_size samples whose
\* encoder frames, once padded by the separator, hold at least one chunk of
\* chunk_size frames, extract_latent and forward return an output of exactly T
\* samples.
C1_OutputLengthOneChunk ==
    (IsLatentCall /\ call.input[2] = 1 /\ call.input[3] >= self.kernel_size
     /\ HoldsOneChunk(FramesFor(call.input[3])))
        => (call.err = Ok /\ call.output = <<call.input[1], self.n_sources, call.input[3]>>)

C1_Witness ==
    /\ call.op = "extract_latent"
    /\ call.err = Ok
    /\ call.input[3] >= self.kernel_size
    /\ call.padding_right = call.padding_left + 1
    /\ call.output[3] = call.input[3]

PassesDPTNetChecks ==
    /\ StrideCheck(self.kernel_size, self.stride) = Ok
    /\ KwargsCheck(self.enc_bases, self.dec_bases, self.kwargs) = Ok

\* C2 as stated: constructing a Separator or a DPTNet with a mask_nonlinear
\* other than relu, sigmoid or softmax ends in the ValueError "Cannot support",
\* whatever num_blocks is, and never selects a nonlinearity.
C2_UnsupportedMaskRaisesValueError ==
    /\ (cls = "Separator" /\ self.mask_nonlinear \notin {"relu", "sigmoid", "softmax"})
          => (status = ErrMask /\ self.mask = "none")
    /\ (cls = "DPTNet" /\ PassesDPTNetChecks
        /\ self.mask_nonlinear \notin {"relu", "sigmoid", "softmax"})
          => (status = ErrMask /\ self.mask = "none")

\* C3 as stated: with the softmax nonlinearity, for every basis index f the
\* mask values of Separator.forward over the sources sum to 1.
C3_SoftmaxSumsToOneOverSources ==
    (call.op = "Separator.forward" /\ call.err = Ok /\ self.mask = "Softmax(dim=1)")
        => \A f \in 1..self.num_features :
              /\ \A s \in 1..self.n_sources : call.mask[s][f].den = call.mask[1][f].den
              /\ SumBags([s \in 1..self.n_sources |-> call.mask[s][f].num])
                    = call.mask[1][f].den

PassesConfigurationChecks ==
    \/ cls = "DualPathTransformer"
    \/ cls = "Separator" /\ self.mask_nonlinear \in {"relu", "sigmoid", "softmax"}
    \/ cls = "DPTNet" /\ PassesDPTNetChecks
                      /\ self.mask_nonlinear \in {"relu", "sigmoid", "softmax"}

\* C4 as stated: the two sub-transformers always fail with NotImplementedError,
\* and so does constructing a DualPathTransformer, Separator or DPTNet whose
\* configuration passes the checks, for every num_blocks.
C4_NeverConstructs ==
    /\ cls \in {"IntraChunkTransformer", "InterChunkTransformer"}
          => status = ErrNotImplemented
    /\ PassesConfigurationChecks => status = ErrNotImplemented

\* C4 amended: the two sub-transformers always fail with NotImplementedError,
\* and so does constructing a DualPathTransformer, Separator or DPTNet whose
\* configuration passes the checks and has num_blocks >= 1.
C4_NeverConstructsWithBlocks ==
    /\ cls \in {"IntraChunkTransformer", "InterChunkTransformer"}
          => status = ErrNotImplemented
    /\ (PassesConfigurationChecks /\ self.num_blocks >= 1)
          => status = ErrNotImplemented

C4_Witness ==
    /\ cls = "DPTNet"
    /\ PassesConfigurationChecks
    /\ self.num_blocks >= 1
    /\ status = ErrNotImplemented
    /\ built = <<"choose_bases", "Separator", "Segment1d", "DualPathTransformer",
                 "DualPathTransformerBlock", "IntraChunkTransformer">>

\* C5 as stated: DPTNet construction with kernel_size not evenly divisible by
\* the effective stride ends in the "kernel_size is expected divisible by
\* stride" error before the factory or the separator is built, and every
\* constructed DPTNet has kernel_size % stride = 0.
C5_IndivisibleRaisesDescriptiveError ==
    /\ (cls = "DPTNet"
        /\ (self.stride = 0 \/ self.kernel_size % self.stride # 0))
          => (status = ErrDivisible /\ built = <<>>)
    /\ (cls = "DPTNet" /\ status = Ok)
          => (self.stride # 0 /\ self.kernel_size % self.stride = 0)

\* C6: extract_latent and forward on an input with C_in # 1 end in the
\* channel-count error before padding, encoder, separator or decoder run, and
\* only one-channel inputs reach any of those steps.
C6_ChannelCheckFirst ==
    /\ (IsLatentCall /\ call.input[2] # 1)
          => /\ call.err = ErrChannels
             /\ call.steps = <<>>
             /\ call.output = <<>>
             /\ call.latent = <<>>
    /\ (IsLatentCall /\ call.steps # <<>>) => call.input[2] = 1

C6_Witness ==
    /\ call.op = "extract_latent"
    /\ call.input[2] = 2
    /\ call.err = ErrChannels
    /\ call.steps = <<>>

\* C7 as stated: for T >= kernel_size the latent of extract_latent has shape
\* (batch_size, n_sources, n_bases, (T - kernel_size)//stride + 1) with T the
\* length of the input as given.
C7_LatentFramesFromInputLength ==
    (call.op = "extract_latent" /\ call.err = Ok /\ call.input[3] >= self.kernel_size)
        => call.latent = <<call.input[1], self.n_sources, self.n_bases,
                           (call.input[3] - self.kernel_size) \div self.stride + 1>>

\* C8 as stated: at any time after construction, whatever parameters have been
\* frozen or unfrozen, num_parameters equals the sum of the element counts of
\* the parameters that currently require gradients.
C8_NumParametersTracksTrainable ==
    (cls = "DPTNet" /\ status = Ok)
        => num_parameters
              = SumSeq([i \in 1..3 |->
                    LET p == <<"encoder", "separator.glu", "decoder">>[i]
                    IN IF params[p].requires_grad THEN params[p].numel ELSE 0])

PaddingIsAligned(L, W, H, p) ==
    /\ 0 <= p
    /\ p < H
    /\ (L + p - W) % H = 0

\* C9: in extract_latent (T, kernel_size, stride) and in Separator.forward
\* (T_bin, chunk_size, hop_size), also for lengths below the window, the
\* padding p satisfies 0 <= p < H and (L + p - W) % H = 0, and it is split as
\* padding_left = p // 2, padding_right = p - padding_left, so that
\* padding_left <= padding_right <= padding_left + 1.
C9_PaddingAlignsAndSplits ==
    /\ (IsLatentCall /\ call.input[2] = 1)
          => /\ PaddingIsAligned(call.input[3], self.kernel_size, self.stride,
                                 call.padding)
             /\ ("separator" \in {call.steps[i] : i \in DOMAIN call.steps}
                   => PaddingIsAligned(call.frames, self.chunk_size, self.hop_size,
                                       call.sep_padding))
    /\ call.op = "Separator.forward"
          => PaddingIsAligned(call.input[3], self.chunk_size, self.hop_size,
                              call.padding)
    /\ (call.op = "Separator.forward" \/ (IsLatentCall /\ call.input[2] = 1))
          => /\ call.padding_left = call.padding \div 2
             /\ call.padding_right = call.padding - call.padding_left
             /\ call.padding_left <= call.padding_right
             /\ call.padding_right <= call.padding_left + 1

C9_Witness ==
    /\ call.op = "extract_latent"
    /\ call.input[2] = 1
    /\ call.input[3] < self.kernel_size
    /\ call.padding_right = call.padding_left + 1

Padded == call.op \in {"Separator.forward", "extract_latent"}

\* the length of the last axis of the tensor the forward pass returned
ReturnedLength ==
    IF call.op = "Separator.forward" THEN Len(call.cropped) ELSE call.output[3]

\* C10: padding the last axis by the computed (padding_left, padding_right) and
\* then cropping by the same amounts returns a tensor of the original shape
\* whose elements are the original elements in their original positions: the
\* second F.pad, with the negated amounts, applied to the row the first F.pad of
\* a forward pass produced gives back the row as given, and the tensor the
\* forward pass returns has the original length on its last axis.
C10_PadCropReturnsOriginal ==
    /\ Padded
          => F_pad(call.padded, 0 - call.padding_left, 0 - call.padding_right)
                = call.row
    /\ (Padded /\ call.err = Ok) => ReturnedLength = Len(call.row)

C10_Witness ==
    /\ call.op = "Separator.forward"
    /\ call.err = Ok
    /\ Len(call.row) >= 2
    /\ call.row[1] # 0
    /\ call.padding_left < call.padding_right
    /\ Len(call.padded) > Len(call.row)
    /\ Len(call.cropped) = Len(call.row)

====
